---- MODULE Spec2Model ----
(***************************************************************************)
(* Model of july/helpers.py: the calendar grid builder (date_grid), the    *)
(* heatmap renderer (cal_heatmap) with its colour limits and overlays      *)
(* (add_month_label, add_year_label, add_month_grid) and the month outline *)
(* tracer (get_month_outline).                                             *)
(*                                                                         *)
(* A date is a record [year, month, day].  A grid cell is a tagged record: *)
(* [kind |-> "nan"] (numpy NaN), [kind |-> "None"] (empty object cell),    *)
(* [kind |-> "num", num |-> n], [kind |-> "date", date |-> d] or           *)
(* [kind |-> "str", str |-> s].  A grid is [shape |-> <<rows, cols>>,      *)
(* cells |-> function on <<row, col>>], zero-based like the numpy arrays.  *)
(***************************************************************************)
EXTENDS Integers, Sequences, FiniteSets, TLC

VARIABLES dates, data, flip, pc, cal, call, steps, clim, texts, day_ticks,
          month_locs, year_locs, lines, cax, ax_title, outline, err

vars == <<dates, data, flip, pc, cal, call, steps, clim, texts, day_ticks,
          month_locs, year_locs, lines, cax, ax_title, outline, err>>

(***************************************************************************)
(* Bounds of the input space.                                              *)
(***************************************************************************)
\* longest free-form list of dates / of values
MaxLen == 3
\* number of sample dates the free-form lists draw from
NDates == 3
\* number of first days tried for a run of consecutive days
NStarts == 7
\* longest run of consecutive days
MaxRun == 9
\* longest gap (in days) between two runs, and longest second run
MaxGap == 2
\* number of calendar years whose full months are tried
NYears == 2

(***************************************************************************)
(* Evaluation helpers.                                                     *)
(***************************************************************************)
\* the element of a one-element set
The(S) == CHOOSE x \in S : TRUE

\* an assignment v = ...; Body(v): the value is computed once, then used
With(v, Body(_)) == The({Body(x) : x \in {v}})

\* an array or dict as the program holds it: every element computed once
Array(f) == f @@ <<>>

SetMax(S) == CHOOSE x \in S : \A y \in S : y <= x
SetMin(S) == CHOOSE x \in S : \A y \in S : x <= y

(***************************************************************************)
(* datetime.date: the proleptic Gregorian calendar and ISO-8601 weeks, as  *)
(* day.isocalendar(), day.year, day.month, day.day compute them.           *)
(***************************************************************************)
IsLeap(y) == (y % 4 = 0) /\ ((y % 100 # 0) \/ (y % 400 = 0))

DaysInMonth(y, m) ==
    IF m = 2 THEN (IF IsLeap(y) THEN 29 ELSE 28)
    ELSE IF m \in {4, 6, 9, 11} THEN 30 ELSE 31

DaysBeforeYear(y) ==
    (y - 1) * 365 + ((y - 1) \div 4) - ((y - 1) \div 100) + ((y - 1) \div 400)

\* days of a common year before the first of each month
DAYS_BEFORE_MONTH == <<0, 31, 59, 90, 120, 151, 181, 212, 243, 273, 304, 334>>

DaysBeforeMonth(y, m) == DAYS_BEFORE_MONTH[m] + (IF m > 2 /\ IsLeap(y) THEN 1 ELSE 0)

ToOrdinal(d) == DaysBeforeYear(d.year) + DaysBeforeMonth(d.year, d.month) + d.day

\* Monday of ISO week 1 of the year: the week holding the year's first Thursday
IsoWeek1Monday(y) ==
    With(DaysBeforeYear(y) + 1, LAMBDA firstday :
        With((firstday + 6) % 7, LAMBDA firstweekday :
            IF firstweekday > 3
            THEN firstday - firstweekday + 7
            ELSE firstday - firstweekday))

\* <<iso year, iso week, iso weekday>>, weekday 1 = Monday .. 7 = Sunday
IsoCalendar(d) ==
    With(ToOrdinal(d), LAMBDA today :
        With(today - IsoWeek1Monday(d.year), LAMBDA since :
            IF since < 0
            THEN <<d.year - 1, ((today - IsoWeek1Monday(d.year - 1)) \div 7) + 1,
                   (since % 7) + 1>>
            ELSE IF since \div 7 >= 52 /\ today >= IsoWeek1Monday(d.year + 1)
                 THEN <<d.year + 1, 1, (since % 7) + 1>>
                 ELSE <<d.year, (since \div 7) + 1, (since % 7) + 1>>))

(***************************************************************************)
(* Cells and grids.                                                        *)
(***************************************************************************)
NaN == [kind |-> "nan"]
None == [kind |-> "None"]
Num(n) == [kind |-> "num", num |-> n]
DateCell(d) == [kind |-> "date", date |-> d]
\* str(x) of a tuple of integers: its printed form, one string per tuple
Str(t) == [kind |-> "str", str |-> t]

n_days == 7

NoGrid == [shape |-> <<0, 0>>, cells |-> <<>>]
Raise(e) == [err |-> e, grid |-> NoGrid]
Return(g) == [err |-> "none", grid |-> g]

\* a variant that also reverses the week axis
Transpose_Mirrored(g) ==
    [shape |-> <<g.shape[2], g.shape[1]>>,
     cells |-> Array([p \in (0 .. g.shape[2] - 1) \X (0 .. g.shape[1] - 1) |->
                         g.cells[<<g.shape[1] - 1 - p[2], p[1]>>]])]

\* grid.T
Transpose(g) ==
    [shape |-> <<g.shape[2], g.shape[1]>>,
     cells |-> Array([p \in (0 .. g.shape[2] - 1) \X (0 .. g.shape[1] - 1) |->
                         g.cells[<<p[2], p[1]>>]])]

\* a variant that compares the week number before the year
WeekLess_WeekFirst(a, b) == a[2] < b[2] \/ (a[2] = b[2] /\ a[1] < b[1])

\* tuple comparison of (iso year, iso week)
WeekLess(a, b) == a[1] < b[1] \/ (a[1] = b[1] /\ a[2] < b[2])

\* sorted(list(set(...))) of week tuples: position i holds the week with
\* i - 1 smaller ones
SortedWeeks(S) ==
    Array([i \in 1 .. Cardinality(S) |->
              CHOOSE w \in S : Cardinality({v \in S : WeekLess(v, w)}) = i - 1])

\* weeknum2idx[week]: zero-based position of the week in unique_weeks
WeekIdx(unique_weeks, week) ==
    (CHOOSE i \in 1 .. Len(unique_weeks) : unique_weeks[i] = week) - 1

\* grid[week_coords, day_coords] = data: equal lengths assign element-wise
\* (the last write to a cell wins), one value is broadcast to every index.
Scatter(week_coords, day_coords, values, shape, empty) ==
    [shape |-> shape,
     cells |-> Array([p \in (0 .. shape[1] - 1) \X (0 .. shape[2] - 1) |->
        With({i \in 1 .. Len(week_coords) :
                 week_coords[i] = p[1] /\ day_coords[i] = p[2]}, LAMBDA hits :
            IF hits = {} THEN empty
            ELSE IF Len(values) = 1 THEN values[1] ELSE values[SetMax(hits)])])]

date_grid(ds, values, flp, dtype) ==
    IF Len(ds) = 0
    THEN Raise("IndexError")
    ELSE IF Len(values) # Len(ds) /\ Len(values) # 1
    THEN Raise("ValueError: shape mismatch")
    ELSE
    With(Array([i \in 1 .. Len(ds) |-> IsoCalendar(ds[i])]), LAMBDA iso_dates :
    With(SortedWeeks({<<iso_dates[i][1], iso_dates[i][2]>> : i \in 1 .. Len(ds)}),
         LAMBDA unique_weeks :
    With(Array([i \in 1 .. Len(ds) |->
                   WeekIdx(unique_weeks, <<iso_dates[i][1], iso_dates[i][2]>>)]),
         LAMBDA week_coords :
    With(Array([i \in 1 .. Len(ds) |-> iso_dates[i][3] - 1]), LAMBDA day_coords :
    With(Scatter(week_coords, day_coords, values, <<Len(unique_weeks), n_days>>,
                 IF dtype = "float64" THEN NaN ELSE None), LAMBDA grid :
        Return(IF flp THEN Transpose(grid) ELSE grid))))))

(***************************************************************************)
(* Label placement.                                                        *)
(***************************************************************************)
\* n / 2 as a fraction
Half(n) == [num |-> n, den |-> 2]

\* np.nonzero(grid == value): the <<row, col>> of the cells equal to value
\* (a NaN or None cell equals no value)
NonZeroEq(g, value) == {p \in DOMAIN g.cells : g.cells[p] = value}

\* a variant that takes the row indices in both orientations
SpanMid_IgnoresFlip(where, flp) ==
    With({p[1] : p \in where}, LAMBDA idx : Half(SetMax(idx) + 1 + SetMin(idx)))

\* (xx.max() + 1 + xx.min() if flip else yy.max() + 1 + yy.min()) / 2
SpanMid(where, flp) ==
    With(IF flp THEN {p[2] : p \in where} ELSE {p[1] : p \in where}, LAMBDA idx :
        Half(SetMax(idx) + 1 + SetMin(idx)))

\* add_date_label: the day of the month written at the centre of every cell
\* that holds a date (int() of an empty cell raises ValueError, which is caught)
add_date_label(ds, flp) ==
    With(Array([i \in 1 .. Len(ds) |-> Num(ds[i].day)]), LAMBDA days :
    With(date_grid(ds, days, flp, "float64"), LAMBDA day_grid :
        IF day_grid.err # "none" THEN [err |-> day_grid.err]
        ELSE [err |-> "none",
              text |-> Array([p \in {q \in DOMAIN day_grid.grid.cells :
                                        day_grid.grid.cells[q].kind = "num"} |->
                                 [x |-> Half(2 * p[2] + 1), y |-> Half(2 * p[1] + 1),
                                  s |-> day_grid.grid.cells[p].num]])]))

\* calendar.weekheader(width=1).split(" ")
weekheader == <<"M", "T", "W", "T", "F", "S", "S">>

\* add_weekday_label: one tick per weekday along the weekday axis
add_weekday_label(flp) ==
    [err |-> "none",
     axis |-> IF flp THEN "y" ELSE "x",
     pad |-> IF flp THEN 8 ELSE 4,
     ticks |-> Array([x \in 1 .. Len(weekheader) |-> Half(2 * (x - 1) + 1)]),
     ticklabels |-> weekheader,
     tick_top |-> ~flp]

month_abbr ==
    <<"Jan", "Feb", "Mar", "Apr", "May", "Jun", "Jul", "Aug", "Sep", "Oct", "Nov", "Dec">>

add_month_label(ds, flp) ==
    With(Array([i \in 1 .. Len(ds) |-> <<ds[i].year, ds[i].month>>]), LAMBDA month_years :
    With(Array([i \in 1 .. Len(ds) |-> Str(month_years[i])]), LAMBDA month_years_str :
    With(date_grid(ds, month_years_str, flp, "object"), LAMBDA month_year_grid :
    With({month_years[i] : i \in 1 .. Len(ds)}, LAMBDA unique_month_years :
        IF month_year_grid.err # "none" THEN [err |-> month_year_grid.err]
        ELSE
        With(Array([month \in unique_month_years |->
                       NonZeroEq(month_year_grid.grid, Str(month))]), LAMBDA where :
            IF \E month \in unique_month_years : where[month] = {}
            THEN [err |-> "ValueError: zero-size array"]
            ELSE [err |-> "none",
                  axis |-> IF flp THEN "x" ELSE "y",
                  ticks |-> Array([month \in unique_month_years |->
                                      SpanMid(where[month], flp)]),
                  ticklabels |-> Array([month \in unique_month_years |->
                                           month_abbr[month[2]]])])))))

add_year_label(ds, flp) ==
    With(Array([i \in 1 .. Len(ds) |-> Num(ds[i].year)]), LAMBDA years :
    With(date_grid(ds, years, flp, "float64"), LAMBDA year_grid :
    With({ds[i].year : i \in 1 .. Len(ds)}, LAMBDA unique_years :
        IF year_grid.err # "none" THEN [err |-> year_grid.err]
        ELSE
        With(Array([year \in unique_years |-> NonZeroEq(year_grid.grid, Num(year))]),
             LAMBDA where :
            IF \E year \in unique_years : where[year] = {}
            THEN [err |-> "ValueError: zero-size array"]
            ELSE
            With(Array([year \in unique_years |-> SpanMid(where[year], flp)]),
                 LAMBDA locs :
                [err |-> "none",
                 locs |-> locs,
                 \* annotation anchor in axes fractions: (loc / ncols, 1) when
                 \* flipped, (0, 1 - loc / nrows) otherwise
                 xy |-> Array([year \in unique_years |->
                           IF flp
                           THEN <<[num |-> locs[year].num,
                                   den |-> 2 * year_grid.grid.shape[2]],
                                  [num |-> 1, den |-> 1]>>
                           ELSE <<[num |-> 0, den |-> 1],
                                  [num |-> 2 * year_grid.grid.shape[1] - locs[year].num,
                                   den |-> 2 * year_grid.grid.shape[1]]>>])])))))

(***************************************************************************)
(* Month outline tracer.                                                   *)
(***************************************************************************)
IsFinite(c) == c.kind = "num"

\* a variant that lists (y, x) instead of (x, y)
CollectCoords_Swapped(mg, day_grid, month) ==
    With(mg.shape[2], LAMBDA ncols :
    With({k \in 0 .. mg.shape[1] * ncols - 1 :
             IsFinite(mg.cells[<<k \div ncols, k % ncols>>])
             /\ day_grid.cells[<<k \div ncols, k % ncols>>].date.month = month},
         LAMBDA visited :
        Array([i \in 1 .. Cardinality(visited) |->
            With(CHOOSE c \in visited : Cardinality({j \in visited : j < c}) = i - 1,
                 LAMBDA k : <<k \div ncols, k % ncols>>)])))

\* the nested loops over y, x: the k-th cell visited (from 0) is
\* <<k \div ncols, k % ncols>>; the result lists (x, y) in visiting order
CollectCoords(mg, day_grid, month) ==
    With(mg.shape[2], LAMBDA ncols :
    With({k \in 0 .. mg.shape[1] * ncols - 1 :
             IsFinite(mg.cells[<<k \div ncols, k % ncols>>])
             /\ day_grid.cells[<<k \div ncols, k % ncols>>].date.month = month},
         LAMBDA visited :
        Array([i \in 1 .. Cardinality(visited) |->
            With(CHOOSE c \in visited : Cardinality({j \in visited : j < c}) = i - 1,
                 LAMBDA k : <<k % ncols, k \div ncols>>)])))

\* a variant that steps past the last cell in y only
lower_right2_SameColumn(last) == <<last[1], last[2] + 1>>

\* lower_right2 = sorted_coords[-1] + (1, 1)
lower_right2(last) == <<last[1] + 1, last[2] + 1>>

\* the corners in drawing order, from the first and last cell of the month
Outline(upper_left, last, min_y, max_y) ==
    With(<<7, max_y>>, LAMBDA lower_right :
    With(lower_right2(last), LAMBDA lr2 :
        <<upper_left,
          \* upper_right
          <<7, min_y>>,
          lower_right,
          \* lower_right1
          IF lower_right = lr2 THEN lr2 ELSE <<lr2[1], lr2[2] - 1>>,
          lr2,
          \* lower_left
          <<0, max_y + 1>>,
          \* second_last: corner_last with x = 0
          <<0, upper_left[2] + 1>>,
          \* corner_last
          <<upper_left[1], upper_left[2] + 1>>,
          upper_left>>))

\* a variant that leaves the polygon open
Corners_Open(sorted_coords) ==
    With({sorted_coords[i][2] : i \in 1 .. Len(sorted_coords)}, LAMBDA ys :
        SubSeq(Outline(sorted_coords[1], sorted_coords[Len(sorted_coords)],
                       SetMin(ys), SetMax(ys)), 1, 8))

\* coords: the nine corners
Corners(sorted_coords) ==
    With({sorted_coords[i][2] : i \in 1 .. Len(sorted_coords)}, LAMBDA ys :
        Outline(sorted_coords[1], sorted_coords[Len(sorted_coords)],
                SetMin(ys), SetMax(ys)))

get_month_outline(ds, month_grid, flp, month) ==
    With(date_grid(ds, Array([i \in 1 .. Len(ds) |-> DateCell(ds[i])]), FALSE, "object"),
         LAMBDA day_grid :
    With(IF flp THEN Transpose(month_grid) ELSE month_grid, LAMBDA mg :
        IF day_grid.err # "none" THEN [err |-> day_grid.err, coords |-> <<>>]
        ELSE IF \E p \in DOMAIN mg.cells :
                   IsFinite(mg.cells[p]) /\ p \notin DOMAIN day_grid.grid.cells
        THEN [err |-> "IndexError", coords |-> <<>>]
        ELSE IF \E p \in DOMAIN mg.cells :
                   IsFinite(mg.cells[p]) /\ day_grid.grid.cells[p] = None
        THEN [err |-> "AttributeError", coords |-> <<>>]
        ELSE
        With(CollectCoords(mg, day_grid.grid, month), LAMBDA sorted_coords :
            IF Len(sorted_coords) = 0
            THEN [err |-> "IndexError", coords |-> <<>>]
            ELSE With(Corners(sorted_coords), LAMBDA coords :
                    [err |-> "none",
                     coords |-> IF flp
                                THEN Array([i \in 1 .. Len(coords) |->
                                               <<coords[i][2], coords[i][1]>>])
                                ELSE coords]))))

\* a variant that leaves out the months whose outline cannot be worked out
add_month_grid_SkipsEmpty(ds, month_grid, flp) ==
    With({ds[i].month : i \in 1 .. Len(ds)}, LAMBDA months :
    With(Array([month \in months |-> get_month_outline(ds, month_grid, flp, month)]),
         LAMBDA traced :
        [err |-> "none",
         plots |-> Array([month \in {m \in months : traced[m].err = "none"} |->
                             traced[month].coords])]))

\* one outline per month number present in the dates; the first failure aborts
add_month_grid(ds, month_grid, flp) ==
    With({ds[i].month : i \in 1 .. Len(ds)}, LAMBDA months :
    With(Array([month \in months |-> get_month_outline(ds, month_grid, flp, month)]),
         LAMBDA traced :
        IF \E month \in months : traced[month].err # "none"
        THEN [err |-> (traced[CHOOSE month \in months : traced[month].err # "none"]).err]
        ELSE [err |-> "none",
              plots |-> Array([month \in months |-> traced[month].coords])]))

(***************************************************************************)
(* Colour limits.                                                          *)
(***************************************************************************)
\* Python truth value of an optional number or string
Truthy(v) == (v.kind = "num" /\ v.num # 0) \/ (v.kind = "str" /\ v.str # "")

FiniteValues(g) == {g.cells[p].num : p \in {q \in DOMAIN g.cells : IsFinite(g.cells[q])}}

\* np.nanmin / np.nanmax: NaN when every cell is NaN
nanmin(g) ==
    With(FiniteValues(g), LAMBDA vs : IF vs = {} THEN NaN ELSE Num(SetMin(vs)))
nanmax(g) ==
    With(FiniteValues(g), LAMBDA vs : IF vs = {} THEN NaN ELSE Num(SetMax(vs)))

\* pc.set_clim(cmin or np.nanmin(cal), cmax or np.nanmax(cal))
set_clim(g, cmin, cmax) ==
    <<IF Truthy(cmin) THEN cmin ELSE nanmin(g),
      IF Truthy(cmax) THEN cmax ELSE nanmax(g)>>

(***************************************************************************)
(* Inputs.                                                                 *)
(***************************************************************************)
\* date.fromordinal
FromOrdinal(n) ==
    With(CHOOSE y \in ((n \div 365) - 2) .. ((n \div 365) + 1) :
             DaysBeforeYear(y) < n /\ n <= DaysBeforeYear(y + 1), LAMBDA y :
    With(n - DaysBeforeYear(y), LAMBDA rest :
    With(CHOOSE m \in 1 .. 12 :
             DaysBeforeMonth(y, m) < rest
             /\ rest <= DaysBeforeMonth(y, m) + DaysInMonth(y, m), LAMBDA m :
        [year |-> y, month |-> m, day |-> rest - DaysBeforeMonth(y, m)])))

AddDays(d, k) == FromOrdinal(ToOrdinal(d) + k)

\* the k consecutive days starting at d
DayRun(d, k) == Array([i \in 1 .. k |-> AddDays(d, i - 1)])

\* sample dates five days apart, across the turn of a year and of an ISO year
SampleBase == [year |-> 2020, month |-> 12, day |-> 26]
SampleDates == {AddDays(SampleBase, 5 * i) : i \in 0 .. NDates - 1}

\* first days of the runs, across the turn of a month inside a week
RunBase == [year |-> 2021, month |-> 3, day |-> 26]
RunStarts == {AddDays(RunBase, i) : i \in 0 .. NStarts - 1}

RECURSIVE SeqsUpTo(_, _)
SeqsUpTo(S, n) ==
    IF n = 0 THEN {<<>>}
    ELSE With(SeqsUpTo(S, n - 1), LAMBDA shorter :
             shorter \cup {Append(t, x) : t \in {u \in shorter : Len(u) = n - 1},
                                          x \in S})

\* values 1..n, with the value at position hole (if any) replaced by NaN
ValueList(n, hole) == Array([i \in 1 .. n |-> IF i = hole THEN NaN ELSE Num(i)])

Unset == [kind |-> "unset"]

InitCommon ==
    /\ flip \in BOOLEAN
    /\ pc = "start"
    /\ cal = Unset
    /\ call = Unset
    /\ steps = <<>>
    /\ clim = Unset
    /\ texts = Unset
    /\ day_ticks = Unset
    /\ cax = Unset
    /\ ax_title = Unset
    /\ month_locs = Unset
    /\ year_locs = Unset
    /\ lines = Unset
    /\ outline = Unset
    /\ err = "none"

\* free-form lists: any order, repeats allowed, any pair of lengths, with or
\* without a NaN among the values
InitLists ==
    /\ dates \in SeqsUpTo(SampleDates, MaxLen)
    /\ \E n \in 0 .. MaxLen : \E hole \in 0 .. n : data = ValueList(n, hole)

\* a run of consecutive days, alone or followed after a gap by a second run
InitRuns ==
    /\ \E start \in RunStarts, len \in 1 .. MaxRun, gap \in 0 .. MaxGap, more \in 0 .. MaxGap :
          /\ (gap = 0) = (more = 0)
          /\ dates = DayRun(start, len) \o DayRun(AddDays(start, len + gap), more)
    /\ data = ValueList(Len(dates), 0)

\* a few days of one month in two successive years
InitYears ==
    /\ \E start \in RunStarts, len \in 1 .. MaxGap, more \in 1 .. MaxGap :
          dates = DayRun(start, len) \o DayRun([start EXCEPT !.year = @ + 1], more)
    /\ data = ValueList(Len(dates), 0)

\* every day of a calendar month, alone or with a day before and / or after
InitMonths ==
    /\ \E y \in 2020 .. (2020 + NYears - 1), m \in 1 .. 12,
          before \in 0 .. 1, after \in 0 .. 1 :
          dates = DayRun(AddDays([year |-> y, month |-> m, day |-> 1], 0 - before),
                         before + DaysInMonth(y, m) + after)
    /\ data = ValueList(Len(dates), 0)

Init == (InitLists \/ InitRuns \/ InitYears \/ InitMonths) /\ InitCommon

\* the <<cmin, cmax>> arguments tried: each of them not given, zero, non-zero
LimitArgs == {<<None, None>>, <<Num(0), Num(5)>>, <<Num(2), Num(0)>>}

(***************************************************************************)
(* Operations.                                                             *)
(***************************************************************************)
\* the caller builds the value grid: cal = date_grid(dates, data, flip)
DateGrid ==
    /\ pc = "start"
    /\ \E r \in {date_grid(dates, data, flip, "float64")} :
          /\ cal' = r
          /\ err' = r.err
          /\ pc' = IF r.err = "none" THEN "grid" ELSE "failed"
    /\ UNCHANGED <<dates, data, flip, call, steps, clim, texts, day_ticks,
                   month_locs, year_locs, lines, cax, ax_title, outline>>

\* the title arguments tried: not given, given
TitleArgs == {None, Str("july")}

\* a variant that draws the legend before the labels and the outlines
Plan_LegendFirst(args, overlays) ==
    <<[on |-> TRUE, name |-> "pcolormesh", err |-> "none"],
      [on |-> TRUE, name |-> "set_clim", err |-> "none"],
      [on |-> TRUE, name |-> "bbox", err |-> "none"],
      [on |-> args.colorbar, name |-> "adj_bbox", err |-> "none"],
      [on |-> args.colorbar, name |-> "colorbar", err |-> "none"],
      [on |-> args.date_label, name |-> "add_date_label",
       err |-> overlays.add_date_label.err],
      [on |-> args.weekday_label, name |-> "add_weekday_label",
       err |-> overlays.add_weekday_label.err],
      [on |-> args.month_label, name |-> "add_month_label",
       err |-> overlays.add_month_label.err],
      [on |-> args.year_label, name |-> "add_year_label",
       err |-> overlays.add_year_label.err],
      [on |-> args.month_grid, name |-> "add_month_grid",
       err |-> overlays.add_month_grid.err],
      [on |-> Truthy(args.title), name |-> "set_title", err |-> "none"],
      [on |-> TRUE, name |-> "return", err |-> "none"]>>

\* the statements of cal_heatmap in program order: whether the arguments of
\* the call let each run, and the error it raises if it does.  bbox and
\* adj_bbox are the two readings of ax.get_position().
Plan(args, overlays) ==
    <<[on |-> TRUE, name |-> "pcolormesh", err |-> "none"],
      [on |-> TRUE, name |-> "set_clim", err |-> "none"],
      [on |-> TRUE, name |-> "bbox", err |-> "none"],
      [on |-> args.date_label, name |-> "add_date_label",
       err |-> overlays.add_date_label.err],
      [on |-> args.weekday_label, name |-> "add_weekday_label",
       err |-> overlays.add_weekday_label.err],
      [on |-> args.month_label, name |-> "add_month_label",
       err |-> overlays.add_month_label.err],
      [on |-> args.year_label, name |-> "add_year_label",
       err |-> overlays.add_year_label.err],
      [on |-> args.month_grid, name |-> "add_month_grid",
       err |-> overlays.add_month_grid.err],
      [on |-> args.colorbar, name |-> "adj_bbox", err |-> "none"],
      [on |-> args.colorbar, name |-> "colorbar", err |-> "none"],
      [on |-> Truthy(args.title), name |-> "set_title", err |-> "none"],
      [on |-> TRUE, name |-> "return", err |-> "none"]>>

\* running a plan: the statements whose condition holds, in order, up to the
\* first that raises; done are those that completed
Run(plan) ==
    With(SelectSeq(plan, LAMBDA s : s.on), LAMBDA enabled :
    With(IF \E i \in 1 .. Len(enabled) : enabled[i].err # "none"
         THEN SetMin({i \in 1 .. Len(enabled) : enabled[i].err # "none"})
         ELSE Len(enabled), LAMBDA last :
        [steps |-> Array([i \in 1 .. last |-> enabled[i].name]),
         err |-> enabled[last].err,
         done |-> {enabled[i].name : i \in {j \in 1 .. last : enabled[j].err = "none"}}]))

\* fig.add_axes([bbox.x1 + 0.015, adj_bbox.y0 + height_diff / 2, 0.015,
\* bbox.height]), height_diff = adj_bbox.height - bbox.height: the readings of
\* the plot's position each side of the legend's rectangle is worked out from
add_axes ==
    [left |-> {"bbox"}, bottom |-> {"adj_bbox", "bbox"}, width |-> {}, height |-> {"bbox"}]

\* cal_heatmap(cal, dates, flip, title, colorbar, date_label, weekday_label,
\* month_label, year_label, month_grid, cmin, cmax): the mesh and its colour
\* limits, then the overlays asked for, the legend and the title; a step that
\* raises aborts the render and the later ones are not run.  (What each
\* overlay would draw is worked out once per grid; the arguments decide which
\* of them are drawn.)
CalHeatmap ==
    /\ pc = "grid"
    /\ \E overlays \in {[add_date_label |-> add_date_label(dates, flip),
                         add_weekday_label |-> add_weekday_label(flip),
                         add_month_label |-> add_month_label(dates, flip),
                         add_year_label |-> add_year_label(dates, flip),
                         add_month_grid |-> add_month_grid(dates, cal.grid, flip)]} :
       \E date_label \in BOOLEAN, weekday_label \in BOOLEAN, month_label \in BOOLEAN,
          year_label \in BOOLEAN, month_grid \in BOOLEAN, colorbar \in BOOLEAN,
          title \in TitleArgs, limits \in LimitArgs :
       \E args \in {[title |-> title, colorbar |-> colorbar, date_label |-> date_label,
                      weekday_label |-> weekday_label, month_label |-> month_label,
                      year_label |-> year_label, month_grid |-> month_grid,
                      cmin |-> limits[1], cmax |-> limits[2]]} :
       \E ran \in {Run(Plan(args, overlays))} :
          /\ call' = args
          /\ steps' = ran.steps
          /\ clim' = [cmin |-> args.cmin, cmax |-> args.cmax,
                      limits |-> set_clim(cal.grid, args.cmin, args.cmax)]
          /\ texts' = IF "add_date_label" \in ran.done
                      THEN overlays.add_date_label ELSE Unset
          /\ day_ticks' = IF "add_weekday_label" \in ran.done
                          THEN overlays.add_weekday_label ELSE Unset
          /\ month_locs' = IF "add_month_label" \in ran.done
                           THEN overlays.add_month_label ELSE Unset
          /\ year_locs' = IF "add_year_label" \in ran.done
                          THEN overlays.add_year_label ELSE Unset
          /\ lines' = IF "add_month_grid" \in ran.done
                      THEN overlays.add_month_grid ELSE Unset
          /\ cax' = IF "colorbar" \in ran.done THEN add_axes ELSE Unset
          /\ ax_title' = IF "set_title" \in ran.done THEN args.title ELSE Unset
          /\ err' = ran.err
          /\ pc' = IF ran.err = "none" THEN "done" ELSE "failed"
    /\ UNCHANGED <<dates, data, flip, cal, outline>>

\* get_month_outline(dates, cal, flip, month) called on its own
GetMonthOutline ==
    /\ pc = "grid"
    /\ \E month \in 1 .. 12 :
       \E o \in {get_month_outline(dates, cal.grid, flip, month)} :
          /\ outline' = [month |-> month, err |-> o.err, coords |-> o.coords]
          /\ err' = o.err
          /\ pc' = IF o.err = "none" THEN "outlined" ELSE "failed"
    /\ UNCHANGED <<dates, data, flip, cal, call, steps, clim, texts, day_ticks,
                   month_locs, year_locs, lines, cax, ax_title>>

Next == DateGrid \/ CalHeatmap \/ GetMonthOutline

Spec == Init /\ [][Next]_vars

(***************************************************************************)
(* Properties.  The grid positions used below are worked out from the      *)
(* dates alone, not read back from the grids.                              *)
(***************************************************************************)
\* date_grid has just returned or raised (cal never changes afterwards)
AfterDateGrid == pc \in {"grid", "failed"} /\ clim = Unset /\ outline = Unset

DistinctDates == \A i, j \in 1 .. Len(dates) : dates[i] = dates[j] => i = j

EqualFiniteData ==
    Len(data) = Len(dates) /\ \A i \in 1 .. Len(data) : data[i].kind = "num"

\* <<iso year, iso week, iso weekday>> of every input date
IsoDates == Array([i \in 1 .. Len(dates) |-> IsoCalendar(dates[i])])

\* the distinct (iso year, iso week) pairs of the input
InputWeeks == With(IsoDates, LAMBDA iso : {<<iso[i][1], iso[i][2]>> : i \in 1 .. Len(dates)})

PairBefore(a, b) == a[1] < b[1] \/ (a[1] = b[1] /\ a[2] < b[2])

\* <<week rank, weekday - 1>> of every input date: the rank is the number of
\* input weeks before the date's own
Positions ==
    With(IsoDates, LAMBDA iso :
    With({<<iso[i][1], iso[i][2]>> : i \in 1 .. Len(dates)}, LAMBDA weeks :
        Array([i \in 1 .. Len(dates) |->
                  <<Cardinality({v \in weeks : PairBefore(v, <<iso[i][1], iso[i][2]>>)}),
                    iso[i][3] - 1>>])))

\* the cell <<row, col>> of cal a position falls into, in the orientation of cal
InCal(pos) == IF flip THEN <<pos[2], pos[1]>> ELSE pos

\* C1: for a non-empty list of pairwise distinct dates and as many values,
\* date_grid with flip = False returns a grid of shape (W, 7), W the number
\* of distinct ISO weeks, holding each date's value at [week rank, weekday - 1]
\* and the empty marker in every other cell.
C1_GridPlacement ==
    (AfterDateGrid /\ ~flip /\ Len(dates) > 0 /\ Len(data) = Len(dates) /\ DistinctDates)
    => /\ cal.err = "none"
       /\ With(Cardinality(InputWeeks), LAMBDA W :
              /\ cal.grid.shape = <<W, 7>>
              /\ DOMAIN cal.grid.cells = (0 .. W - 1) \X (0 .. 6))
       /\ With(Positions, LAMBDA pos :
              /\ \A i \in 1 .. Len(dates) : cal.grid.cells[pos[i]] = data[i]
              /\ \A p \in DOMAIN cal.grid.cells :
                    (\A i \in 1 .. Len(dates) : pos[i] # p) => cal.grid.cells[p] = NaN)

\* three distinct dates out of order over more than one week have been gridded
C1_Witness ==
    /\ AfterDateGrid /\ ~flip /\ DistinctDates
    /\ Len(dates) = 3 /\ Len(data) = 3
    /\ ToOrdinal(dates[1]) > ToOrdinal(dates[2])
    /\ cal.err = "none" /\ cal.grid.shape[1] >= 2

\* C2: with flip = True date_grid returns the transpose of what it returns
\* with flip = False for the same dates and values: shape (7, W), and cell
\* [j, i] equal to cell [i, j] of the unflipped grid, empty cells included.
C2_FlipTransposes ==
    (AfterDateGrid /\ flip)
    => With(date_grid(dates, data, FALSE, "float64"), LAMBDA plain :
           /\ cal.err = plain.err
           /\ cal.grid.shape = <<plain.grid.shape[2], plain.grid.shape[1]>>
           /\ DOMAIN cal.grid.cells =
                 (0 .. plain.grid.shape[2] - 1) \X (0 .. plain.grid.shape[1] - 1)
           /\ \A p \in DOMAIN plain.grid.cells :
                 cal.grid.cells[<<p[2], p[1]>>] = plain.grid.cells[p])

\* a flipped grid of at least two weeks with a value off the diagonal
C2_Witness ==
    /\ AfterDateGrid /\ flip /\ cal.err = "none"
    /\ cal.grid.shape = <<7, 2>>
    /\ \E p \in DOMAIN cal.grid.cells : p[1] # p[2] /\ cal.grid.cells[p].kind = "num"

\* the errors numpy raises over the shape of an array: a value array that
\* cannot be broadcast, an array of too few dimensions
ShapeErrors == {"ValueError: shape mismatch", "IndexError"}

\* C3: whenever the dates and the values differ in length, date_grid fails
\* with a shape-mismatch error and returns no grid.
C3_MismatchRaises ==
    (AfterDateGrid /\ Len(dates) # Len(data))
    => (cal.err \in ShapeErrors /\ cal.grid = NoGrid)

\* the smallest / largest value of the non-empty cells of cal
CellValues == {cal.grid.cells[p].num :
                  p \in {q \in DOMAIN cal.grid.cells : cal.grid.cells[q].kind = "num"}}
DataMin == IF CellValues = {} THEN NaN ELSE Num(SetMin(CellValues))
DataMax == IF CellValues = {} THEN NaN ELSE Num(SetMax(CellValues))

\* C6: a supplied cmin / cmax, 0 included, is the colour limit; a limit that is
\* not supplied is the minimum / maximum of the non-empty cells.
C6_SuppliedLimitWins ==
    clim # Unset
    => /\ clim.limits[1] = (IF clim.cmin = None THEN DataMin ELSE clim.cmin)
       /\ clim.limits[2] = (IF clim.cmax = None THEN DataMax ELSE clim.cmax)

\* the ranks of the weeks holding the dates picked by Pick
GroupRanks(pos, Pick(_)) == {pos[i][1] : i \in {j \in 1 .. Len(dates) : Pick(dates[j])}}

Midpoint(ranks) == [num |-> SetMin(ranks) + SetMax(ranks) + 1, den |-> 2]

\* C7: the label of every (year, month) group of add_month_label and of every
\* year group of add_year_label sits, along the week axis, at (min + max + 1) / 2
\* of the week indices of the cells the group's dates occupy, in both
\* orientations.
C7_LabelMidpoints ==
    (month_locs # Unset \/ year_locs # Unset)
    => With(Positions, LAMBDA pos :
        /\ month_locs # Unset =>
              /\ DOMAIN month_locs.ticks = {<<dates[i].year, dates[i].month>> :
                                               i \in 1 .. Len(dates)}
              /\ \A ym \in DOMAIN month_locs.ticks :
                    month_locs.ticks[ym] =
                       Midpoint(GroupRanks(pos, LAMBDA d : d.year = ym[1] /\ d.month = ym[2]))
        /\ year_locs # Unset =>
              /\ DOMAIN year_locs.locs = {dates[i].year : i \in 1 .. Len(dates)}
              /\ \A y \in DOMAIN year_locs.locs :
                    year_locs.locs[y] = Midpoint(GroupRanks(pos, LAMBDA d : d.year = y)))

\* flipped, both labels drawn, one month over several weeks and two years
C7_Witness ==
    /\ flip /\ month_locs # Unset /\ year_locs # Unset
    /\ Cardinality(DOMAIN year_locs.locs) = 2
    /\ \E ym \in DOMAIN month_locs.ticks : month_locs.ticks[ym].num >= 4

(***************************************************************************)
(* Outlines.                                                               *)
(***************************************************************************)
\* the cell with corners (x, y) and (x + 1, y + 1) lies inside the polygon:
\* a ray from its centre towards +x crosses an odd number of edges
Crosses(a, b, x, y) ==
    /\ (a[2] <= y) # (b[2] <= y)
    /\ IF b[2] > a[2]
       THEN 2 * a[1] * (b[2] - a[2]) + (2 * y + 1 - 2 * a[2]) * (b[1] - a[1])
               > (2 * x + 1) * (b[2] - a[2])
       ELSE 2 * a[1] * (b[2] - a[2]) + (2 * y + 1 - 2 * a[2]) * (b[1] - a[1])
               < (2 * x + 1) * (b[2] - a[2])

Inside(poly, x, y) ==
    Cardinality({i \in 1 .. Len(poly) - 1 : Crosses(poly[i], poly[i + 1], x, y)}) % 2 = 1

\* the input dates of month number m
OfMonth(m) == {i \in 1 .. Len(dates) : dates[i].month = m}

\* the dates of month m are a run of consecutive days of one year, with
\* finite values
RunOfOneMonth(m) ==
    /\ OfMonth(m) # {}
    /\ Len(data) = Len(dates)
    /\ \A i \in OfMonth(m) : data[i].kind = "num"
    /\ \A i, j \in OfMonth(m) : dates[i].year = dates[j].year /\ (dates[i] = dates[j] => i = j)
    /\ With({dates[i].day : i \in OfMonth(m)}, LAMBDA days :
          SetMax(days) - SetMin(days) + 1 = Cardinality(days))

\* the cells of cal that hold a date of month m
MonthCells(pos, m) == {InCal(pos[i]) : i \in OfMonth(m)}

EnclosesExactly(poly, pos, m) ==
    With(MonthCells(pos, m), LAMBDA cells :
        \A p \in DOMAIN cal.grid.cells : Inside(poly, p[2], p[1]) <=> p \in cells)

\* C4: when the dates of the target month are a run of consecutive days of
\* one (year, month) with finite values, the polygon of get_month_outline
\* encloses exactly that month's cells, in both orientations: every cell
\* holding a date of the month is inside, every other cell is outside.
C4_OutlineEncloses ==
    /\ (outline # Unset /\ RunOfOneMonth(outline.month))
       => /\ outline.err = "none"
          /\ EnclosesExactly(outline.coords, Positions, outline.month)
    /\ lines # Unset
       => With(Positions, LAMBDA pos :
             \A m \in DOMAIN lines.plots :
                RunOfOneMonth(m) => EnclosesExactly(lines.plots[m], pos, m))

\* flipped: a month that starts and ends inside a week, over three weeks or more,
\* next to days of another month
C4_Witness ==
    /\ flip /\ pc = "outlined" /\ RunOfOneMonth(outline.month)
    /\ \E i \in 1 .. Len(dates) : dates[i].month # outline.month
    /\ With(outline.coords, LAMBDA c :
          c[1][2] > 0 /\ c[5][2] < 7 /\ c[5][1] - c[1][1] >= 3)

\* the cells of cal with a finite value and a date of month m
OccupiedBy(pos, m) == {p \in MonthCells(pos, m) : cal.grid.cells[p].kind = "num"}

\* position of a cell in (week, weekday) row-major order
RowMajor(p) == IF flip THEN 7 * p[2] + p[1] ELSE 7 * p[1] + p[2]

\* occupied cells with a cell that is not occupied between two of them
NonContiguous(occupied) ==
    With({RowMajor(p) : p \in occupied}, LAMBDA ks :
        ks # {} /\ SetMax(ks) - SetMin(ks) + 1 > Cardinality(ks))

\* C5 (as claimed): for a month whose occupied cells are non-contiguous in
\* row-major order get_month_outline fails with an index-out-of-range /
\* empty-reduction error instead of returning a polygon.  (Stated for inputs
\* with one finite value per date.)
C5_NonContiguousRaises ==
    (outline # Unset /\ EqualFiniteData /\ DistinctDates
        /\ NonContiguous(OccupiedBy(Positions, outline.month)))
    => (outline.err = "IndexError" /\ outline.coords = <<>>)

\* C5 (amended): on a grid built from the same dates get_month_outline fails
\* with an index-out-of-range error exactly when the month occupies no cell;
\* for a month whose occupied cells are non-contiguous it raises nothing and
\* returns a closed polygon of nine vertices.
C5_RaisesOnlyWhenEmpty ==
    /\ outline # Unset
       => With(OccupiedBy(Positions, outline.month), LAMBDA occupied :
             /\ (outline.err = "IndexError") <=> (occupied = {})
             /\ outline.err \in {"none", "IndexError"}
             /\ NonContiguous(occupied)
                => /\ outline.err = "none"
                   /\ Len(outline.coords) = 9
                   /\ outline.coords[1] = outline.coords[9])
    /\ lines # Unset
       => With(Positions, LAMBDA pos :
             \A m \in DOMAIN lines.plots :
                OccupiedBy(pos, m) # {} /\ Len(lines.plots[m]) = 9)

\* an outline was returned for a month with a hole in its days
C5_Witness ==
    /\ pc = "outlined" /\ outline.err = "none"
    /\ NonContiguous(OccupiedBy(Positions, outline.month))

\* the input is every day of one calendar month, once, with finite values
FullMonthInput ==
    /\ Len(dates) > 0
    /\ EqualFiniteData
    /\ DistinctDates
    /\ Len(dates) = DaysInMonth(dates[1].year, dates[1].month)
    /\ \A i \in 1 .. Len(dates) :
          dates[i].year = dates[1].year /\ dates[i].month = dates[1].month

Xs(poly) == {poly[i][1] : i \in 1 .. Len(poly)}
Ys(poly) == {poly[i][2] : i \in 1 .. Len(poly)}

\* C8: for all the days of one full calendar month with finite values, in the
\* default orientation, get_month_outline returns a closed polygon of 8 or 9
\* vertices whose x span exactly 0..7 and whose y span exactly from the
\* month's first occupied row to its last occupied row plus one.
C8_FullMonthOutline ==
    (outline # Unset /\ ~flip /\ FullMonthInput /\ outline.month = dates[1].month)
    => /\ outline.err = "none"
       /\ Len(outline.coords) \in {8, 9}
       /\ outline.coords[1] = outline.coords[Len(outline.coords)]
       /\ SetMin(Xs(outline.coords)) = 0 /\ SetMax(Xs(outline.coords)) = 7
       /\ With({p[1] : p \in OccupiedBy(Positions, outline.month)}, LAMBDA rows :
             /\ SetMin(Ys(outline.coords)) = SetMin(rows)
             /\ SetMax(Ys(outline.coords)) = SetMax(rows) + 1)

\* the outline of a full month of six weeks
C8_Witness ==
    /\ pc = "outlined" /\ ~flip /\ FullMonthInput /\ outline.month = dates[1].month
    /\ cal.grid.shape[1] = 6

(***************************************************************************)
(* Aborted renders and the order of the steps.                             *)
(***************************************************************************)
\* the month numbers present in the dates
InputMonths == {dates[i].month : i \in 1 .. Len(dates)}

\* the steps cal_heatmap began, as a set
StepsRun == {steps[i] : i \in 1 .. Len(steps)}

\* C9: for a month with no occupied cell in the grid (no date of that month,
\* or only dates with a non-finite value) get_month_outline fails with an
\* index-out-of-range error and returns no polygon; the error propagates
\* through add_month_grid and cal_heatmap: the render stops at the outlines,
\* nothing after them is drawn and no surface is returned.
C9_EmptyMonthAborts ==
    /\ (outline # Unset /\ OccupiedBy(Positions, outline.month) = {})
       => (outline.err = "IndexError" /\ outline.coords = <<>> /\ pc = "failed")
    /\ (call # Unset /\ call.month_grid)
       => With(Positions, LAMBDA pos :
             (\E m \in InputMonths : OccupiedBy(pos, m) = {})
             => /\ pc = "failed" /\ err = "IndexError"
                /\ steps[Len(steps)] = "add_month_grid"
                /\ "return" \notin StepsRun
                /\ lines = Unset /\ cax = Unset /\ ax_title = Unset)

\* a render with outlines, legend and title asked for was aborted by a month
\* whose only value is NaN, next to a month with a finite value
C9_Witness ==
    /\ call # Unset /\ call.month_grid /\ call.colorbar /\ Truthy(call.title)
    /\ pc = "failed"
    /\ With(Positions, LAMBDA pos :
          /\ \E m \in InputMonths : OccupiedBy(pos, m) = {}
          /\ \E m \in InputMonths : OccupiedBy(pos, m) # {})

\* the steps of a render, in the order claimed
StepOrder ==
    <<"pcolormesh", "add_date_label", "add_weekday_label", "add_month_label",
      "add_year_label", "add_month_grid", "colorbar", "set_title">>

StepsOf(order) == {order[k] : k \in 1 .. Len(order)}

\* the label and outline steps
LabelSteps ==
    {"add_date_label", "add_weekday_label", "add_month_label", "add_year_label",
     "add_month_grid"}

Rank(name) == CHOOSE k \in 1 .. Len(StepOrder) : StepOrder[k] = name

\* the argument of the call that asks for an optional step
Asked(name) ==
    CASE name = "add_date_label" -> call.date_label
      [] name = "add_weekday_label" -> call.weekday_label
      [] name = "add_month_label" -> call.month_label
      [] name = "add_year_label" -> call.year_label
      [] name = "add_month_grid" -> call.month_grid
      [] name = "colorbar" -> call.colorbar
      [] name = "set_title" -> Truthy(call.title)

\* where in the steps a reading of the plot's position was taken
ReadAt(box) == CHOOSE i \in 1 .. Len(steps) : steps[i] = box

\* the readings the legend's rectangle is worked out from
LegendBoxes == cax.left \cup cax.bottom \cup cax.width \cup cax.height

\* the steps that ran did so in the claimed order
InStepOrder ==
    \A i, j \in 1 .. Len(steps) :
        (i < j /\ steps[i] \in StepsOf(StepOrder) /\ steps[j] \in StepsOf(StepOrder))
        => Rank(steps[i]) < Rank(steps[j])

\* the legend step comes after every label and outline step that ran
LegendLast ==
    \A i, j \in 1 .. Len(steps) :
        (steps[i] = "colorbar" /\ steps[j] \in LabelSteps) => j < i

\* C10 (as claimed, for a render that returns): the steps run in the order
\* mesh, day numbers, weekdays, months, years, outlines, legend, title; each
\* optional step runs iff its own argument asks for it; the legend never runs
\* before a label or outline step, and every reading of the bounding box the
\* legend is positioned from is taken after all of them.
C10_LegendBoxReadLast ==
    (call # Unset /\ pc = "done")
    => /\ InStepOrder
       /\ \A name \in StepsOf(StepOrder) \ {"pcolormesh"} : name \in StepsRun <=> Asked(name)
       /\ LegendLast
       /\ cax # Unset
          => \A box \in LegendBoxes : \A j \in 1 .. Len(steps) :
                steps[j] \in LabelSteps => j < ReadAt(box)

\* C10 (amended): the steps that run do so in the claimed order; in a render
\* that returns each optional step runs iff its own argument asks for it, in
\* an aborted one only steps asked for ran and the last of them raised; the
\* legend never runs before a label or outline step; the legend's rectangle
\* is worked out from two readings of the bounding box: its left edge and its
\* height from the one taken right after the mesh, before every label and
\* outline step, its bottom edge from that one and from the one taken after
\* all of them.
C10_StepsAndBoxes ==
    call # Unset
    => /\ InStepOrder
       /\ steps[1] = "pcolormesh"
       /\ \A name \in StepsOf(StepOrder) \ {"pcolormesh"} :
             /\ name \in StepsRun => Asked(name)
             /\ (pc = "done" /\ Asked(name)) => name \in StepsRun
       /\ (pc = "done") <=> (steps[Len(steps)] = "return")
       /\ (pc = "failed") <=> (err # "none")
       /\ LegendLast
       /\ cax # Unset
          => /\ cax.left = {"bbox"} /\ cax.height = {"bbox"}
             /\ cax.bottom = {"adj_bbox", "bbox"}
             /\ \A j \in 1 .. Len(steps) :
                   steps[j] \in LabelSteps => (ReadAt("bbox") < j /\ j < ReadAt("adj_bbox"))
             /\ ReadAt("adj_bbox") < ReadAt("colorbar")

\* a render with every optional step asked for has returned
C10_Witness ==
    /\ call # Unset /\ pc = "done" /\ cax # Unset
    /\ \A name \in StepsOf(StepOrder) \ {"pcolormesh"} : Asked(name)
    /\ LabelSteps \subseteq StepsRun
    /\ Cardinality(DOMAIN lines.plots) = 2

====
